---- MODULE Spec2Model ----
(***************************************************************************)
(* burn-rs (src/src/main.rs): the interactive pipeline of main             *)
(* (validation, menus, label, confirmation, partition table, format) and   *)
(* the functions new_dos_mbr, new_gpt, make_fat, make_exfat, write_image.  *)
(***************************************************************************)
EXTENDS Integers, Sequences, FiniteSets, TLC

(***************************************************************************)
(* Fixed-width integers.  TLC's integers are 32-bit, the program's are u64 *)
(* and u32, so a u64 is kept as four 16-bit limbs, least significant       *)
(* first, and every operation below is the machine operation on limbs.     *)
(***************************************************************************)
Base == 2^16

\* a small natural number (below 2^31) as a u64
U64(n) == <<n % Base, (n \div Base) % Base, 0, 0>>

Zero64 == U64(0)

\* u32::MAX, 0xFFFF_FFFF
MaxU32 == <<Base - 1, Base - 1, 0, 0>>

\* a + b on u64 (modulo 2^64)
AddU64(a, b) ==
    LET s1 == a[1] + b[1]
        s2 == a[2] + b[2] + (s1 \div Base)
        s3 == a[3] + b[3] + (s2 \div Base)
        s4 == a[4] + b[4] + (s3 \div Base)
    IN  <<s1 % Base, s2 % Base, s3 % Base, s4 % Base>>

\* a - b on u64, for a >= b
SubU64(a, b) ==
    LET d1 == a[1] - b[1]
        b1 == IF d1 < 0 THEN 1 ELSE 0
        d2 == a[2] - b[2] - b1
        b2 == IF d2 < 0 THEN 1 ELSE 0
        d3 == a[3] - b[3] - b2
        b3 == IF d3 < 0 THEN 1 ELSE 0
        d4 == a[4] - b[4] - b3
    IN  <<d1 % Base, d2 % Base, d3 % Base, d4 % Base>>

\* a / d on u64 (integer division), for a divisor 0 < d < 2^15
DivU64(a, d) ==
    LET x4 == a[4]
        x3 == (x4 % d) * Base + a[3]
        x2 == (x3 % d) * Base + a[2]
        x1 == (x2 % d) * Base + a[1]
    IN  <<x1 \div d, x2 \div d, x3 \div d, x4 \div d>>

\* a * m on u64 (modulo 2^64), for a factor 0 <= m < 2^15
MulU64(a, m) ==
    LET p1 == a[1] * m
        p2 == a[2] * m + (p1 \div Base)
        p3 == a[3] * m + (p2 \div Base)
        p4 == a[4] * m + (p3 \div Base)
    IN  <<p1 % Base, p2 % Base, p3 % Base, p4 % Base>>

\* a < b and a <= b on u64
LtU64(a, b) ==
    \/ a[4] < b[4]
    \/ a[4] = b[4] /\ a[3] < b[3]
    \/ a[4] = b[4] /\ a[3] = b[3] /\ a[2] < b[2]
    \/ a[4] = b[4] /\ a[3] = b[3] /\ a[2] = b[2] /\ a[1] < b[1]

LeqU64(a, b) == a = b \/ LtU64(a, b)

\* `x as u32`: the low 32 bits
AsU32(a) == <<a[1], a[2], 0, 0>>

\* u32::try_from(x).unwrap_or(u32::MAX)
TryU32OrMax(a) == IF a[3] = 0 /\ a[4] = 0 THEN a ELSE MaxU32

(***************************************************************************)
(* Strings are sequences of characters; a character is a one-element token *)
(* ("a", " ", "\n") and "U+00E9" stands for a character of two UTF-8 bytes.*)
(***************************************************************************)
Upper == <<"A","B","C","D","E","F","G","H","I","J","K","L","M",
           "N","O","P","Q","R","S","T","U","V","W","X","Y","Z">>
Lower == <<"a","b","c","d","e","f","g","h","i","j","k","l","m",
           "n","o","p","q","r","s","t","u","v","w","x","y","z">>

Whitespace == {" ", "\n", "\t", "\r"}

LowerChar(c) ==
    IF \E i \in 1..26 : Upper[i] = c
    THEN Lower[CHOOSE i \in 1..26 : Upper[i] = c]
    ELSE c

\* str::to_lowercase
ToLowercase(s) == [i \in 1..Len(s) |-> LowerChar(s[i])]

\* str::trim: leading and trailing whitespace removed
RECURSIVE TrimStart(_)
TrimStart(s) ==
    IF s # <<>> /\ Head(s) \in Whitespace THEN TrimStart(Tail(s)) ELSE s

RECURSIVE TrimEnd(_)
TrimEnd(s) ==
    IF s # <<>> /\ s[Len(s)] \in Whitespace
    THEN TrimEnd(SubSeq(s, 1, Len(s) - 1))
    ELSE s

Trim(s) == TrimEnd(TrimStart(s))

\* str::replace(pat, ""): every occurrence of the one-character pattern removed
RECURSIVE Remove(_, _)
Remove(s, pat) ==
    IF s = <<>> THEN <<>>
    ELSE IF Head(s) = pat THEN Remove(Tail(s), pat)
    ELSE <<Head(s)>> \o Remove(Tail(s), pat)

\* the number of UTF-8 bytes of a character, and str::len (a byte count)
Utf8Len(c) == IF c = "U+00E9" THEN 2 ELSE 1

RECURSIVE ByteLen(_)
ByteLen(s) == IF s = <<>> THEN 0 ELSE Utf8Len(Head(s)) + ByteLen(Tail(s))

\* s.chars().take(n).collect::<String>()
TakeChars(s, n) == SubSeq(s, 1, IF Len(s) < n THEN Len(s) ELSE n)


(***************************************************************************)
(* Program constants.                                                      *)
(***************************************************************************)
\* new_dos_mbr: let ss = 512; also the 512 of new_gpt and make_exfat
ss == 512
\* MBRPartitionEntry.sys of the created partition (0x83)
SysLinux == 131
\* binding.len() > 11
LabelLimit == 11
\* binding.chars().take(10)
LabelKeep == 10
\* make_fat: volume_label = [0u8; 11], label bytes .take(11)
FatLabelBytes == 11
\* write_image: buffer = [0u8; 65536]
ChunkSize == 65536
\* the exit status of a Rust process that panics
PanicStatus == 101
\* mbrman: the alignment (in sectors) of a new MBR, DEFAULT_ALIGN
DefaultAlign == 2048
\* gpt::mbr: the os type of a protective entry (0xEE)
SysProtective == 238

(***************************************************************************)
(* Label normalisation (main, lines 233-242).                              *)
(***************************************************************************)
NoName == <<"N", "O", "_", "N", "A", "M", "E">>

\* if label.is_empty() { label = "NO_NAME" }
DefaultLabel(name) == IF name = <<>> THEN NoName ELSE name

\* label.replace(" ", "").replace(".", "").replace("-", "")
StripLabel(l) == Remove(Remove(Remove(l, " "), "."), "-")

\* if binding.len() > 11 { binding = binding.chars().take(10).collect() }
ChopLabel(binding) ==
    IF ByteLen(binding) > LabelLimit THEN TakeChars(binding, LabelKeep) ELSE binding

NormalizeLabel(name) == ChopLabel(StripLabel(DefaultLabel(name)))

(***************************************************************************)
(* Sector 0 and the in-memory MBR of mbrman.                               *)
(***************************************************************************)
\* MBRPartitionEntry::empty()
EmptyEntry == [boot |-> 0, sys |-> 0, starting_lba |-> Zero64, sectors |-> Zero64]

is_unused(p) == p.sys = 0

\* MBR::new_from(&mut disk, 512, [0xff; 4]): a NEW table with four empty
\* entries (nothing is read from the device but its size)
new_from(deviceSectors) ==
    [sig       |-> <<255, 255, 255, 255>>,
     parts     |-> <<EmptyEntry, EmptyEntry, EmptyEntry, EmptyEntry>>,
     disk_size |-> TryU32OrMax(deviceSectors),
     align     |-> DefaultAlign]

\* what mbr.write_into(&mut disk) leaves in sector 0
write_into(mbr) == [sig |-> mbr.sig, parts |-> mbr.parts]

\* mbr.iter().find(|(i, p)| p.is_unused()).map(|(i, _)| i): 0 stands for None
FirstUnused(mbr) ==
    IF \E i \in 1..4 : is_unused(mbr.parts[i])
    THEN CHOOSE i \in 1..4 :
            /\ is_unused(mbr.parts[i])
            /\ \A j \in 1..(i - 1) : ~is_unused(mbr.parts[j])
    ELSE 0

\* let iso_size = iso_size + 512; let sectors = (iso_size / ss) as u32
SectorCount(iso_size) == AsU32(DivU64(AddU64(iso_size, U64(ss)), ss))

\* mbr.find_free_sectors() for a table without used entries (the only table
\* new_dos_mbr searches): the gap between sector 0 and disk_size, its start
\* moved up to the alignment and its length shortened (saturating) by as much
find_free_sectors(mbr) ==
    LET start == U64(1)
        len   == SubU64(mbr.disk_size, U64(1))
        shift == U64(mbr.align - 1)
    IN  IF LeqU64(mbr.disk_size, U64(1)) \/ LeqU64(len, shift)
        THEN <<>>
        ELSE << <<AddU64(start, shift), SubU64(len, shift)>> >>

\* mbr.find_optimal_place(sectors): the start of the smallest free gap that
\* holds `size` sectors; <<>> stands for None
find_optimal_place(mbr, size) ==
    LET slots == SelectSeq(find_free_sectors(mbr), LAMBDA g : LeqU64(size, g[2]))
    IN  IF slots = <<>> THEN <<>> ELSE <<slots[1][1]>>

\* ProtectiveMBR::new(): one protective entry from LBA 1 of size 0xFFFF_FFFF
ProtectiveMbrNew ==
    [sig   |-> <<0, 0, 0, 0>>,
     parts |-> <<[boot |-> 0, sys |-> SysProtective,
                  starting_lba |-> U64(1), sectors |-> MaxU32],
                 EmptyEntry, EmptyEntry, EmptyEntry>>]


(***************************************************************************)
(* The table writers.  Each is the whole function: given the device and    *)
(* the I/O call that fails (if any), the value returned (or the panic) and *)
(* what the device holds afterwards.  `log` lists the writes in order.     *)
(***************************************************************************)
Outcome(result, cause, s0, g, log) ==
    [result |-> result, cause |-> cause, sector0 |-> s0, gpt |-> g, log |-> log]

\* new_dos_mbr(device_path, iso_size); fail \in DosFailures
new_dos_mbr(cur, curGpt, deviceSectors, iso_size, fail) ==
    LET mbr     == new_from(deviceSectors)
        blank   == write_into(mbr)
        free    == FirstUnused(mbr)
        sectors == SectorCount(iso_size)
        place   == find_optimal_place(mbr, sectors)
        entry   == [boot |-> 0, sys |-> SysLinux,
                    starting_lba |-> place[1], sectors |-> sectors]
        filled  == [mbr EXCEPT !.parts[free] = entry]
    IN  IF fail \in {"open", "write1"}
        THEN Outcome("err", "io", cur, curGpt, <<>>)
        ELSE IF free = 0
        THEN Outcome("panic", "No free partition", blank, curGpt, <<"mbr">>)
        ELSE IF place = <<>>
        THEN Outcome("panic", "Couldn't find a place", blank, curGpt, <<"mbr">>)
        ELSE IF fail = "write2"
        THEN Outcome("err", "io", blank, curGpt, <<"mbr">>)
        ELSE Outcome("ok", "", write_into(filled), curGpt, <<"mbr", "mbr">>)

DosFailures == {"none", "open", "write1", "write2"}

NoGpt == [state |-> "none", name |-> "", part_type |-> "", size |-> Zero64]

\* gpt.add_partition("temporary", iso_size + 512, partition_types::BASIC, 0, None)
add_partition(iso_size) ==
    [state |-> "valid", name |-> "temporary", part_type |-> "BASIC",
     size |-> AddU64(iso_size, U64(ss))]

\* new_gpt(device_path, iso_size); fail \in GptFailures.  A failed gpt.write()
\* leaves the GPT area torn; a failed overwrite_lba0 leaves sector 0 as it was
new_gpt(cur, curGpt, iso_size, fail) ==
    LET table == add_partition(iso_size)
    IN  IF fail \in {"open", "create", "add"}
        THEN Outcome("err", fail, cur, curGpt, <<>>)
        ELSE IF fail = "write"
        THEN Outcome("err", "io", cur, [table EXCEPT !.state = "torn"], <<"gpt">>)
        ELSE IF fail = "mbr"
        THEN Outcome("err", "io", cur, table, <<"gpt">>)
        ELSE Outcome("ok", "", ProtectiveMbrNew, table, <<"gpt", "pmbr">>)

GptFailures == {"none", "open", "create", "add", "write", "mbr"}

(***************************************************************************)
(* The formatters.                                                         *)
(***************************************************************************)
NoVolume == [kind |-> "none", label |-> <<>>, dev_size |-> Zero64]

\* what a formatter that failed while writing leaves on the partition
TornVolume == [kind |-> "torn", label |-> <<>>, dev_size |-> Zero64]

\* the UTF-8 bytes of a string, a byte being a token
RECURSIVE Utf8Bytes(_)
Utf8Bytes(s) ==
    IF s = <<>> THEN <<>>
    ELSE (IF Head(s) = "U+00E9" THEN <<"0xC3", "0xA9">> ELSE <<Head(s)>>)
         \o Utf8Bytes(Tail(s))

\* make_fat: volume_label = [0u8; 11] filled from label.as_bytes().iter().take(11)
FatVolumeLabel(label) ==
    LET b == Utf8Bytes(label)
    IN  [i \in 1..FatLabelBytes |-> IF i <= Len(b) THEN b[i] ELSE "0x00"]

FormatOutcome(result, vol, dev_size) ==
    [result |-> result, volume |-> vol, dev_size |-> dev_size]

\* make_fat(drive_path, label, fat); fail \in FormatFailures
make_fat(curVol, label, fat, fail) ==
    IF fail = "open" THEN FormatOutcome("err", curVol, Zero64)
    ELSE IF fat \notin {16, 32} THEN FormatOutcome("err", curVol, Zero64)
    ELSE IF fail = "format" THEN FormatOutcome("err", TornVolume, Zero64)
    ELSE FormatOutcome("ok",
            [kind |-> IF fat = 16 THEN "fat16" ELSE "fat32",
             label |-> FatVolumeLabel(label), dev_size |-> Zero64],
            Zero64)

\* exfat_fs Label::new: None for a label of more than 11 UTF-16 units
LabelNew(label) == IF Len(label) > 11 THEN <<>> ELSE <<label>>

\* make_exfat(drive_path, label, iso_size); fail \in FormatFailures.  The
\* third field is the dev_size handed to the formatter's options
make_exfat(curVol, label, iso_size, fail) ==
    LET dev_size == AddU64(iso_size, U64(ss))
    IN  IF fail = "open" THEN FormatOutcome("err", curVol, Zero64)
        ELSE IF LabelNew(label) = <<>> THEN FormatOutcome("panic", curVol, Zero64)
        ELSE IF fail = "format" THEN FormatOutcome("err", TornVolume, dev_size)
        ELSE FormatOutcome("ok",
                [kind |-> "exfat", label |-> LabelNew(label)[1], dev_size |-> dev_size],
                dev_size)

FormatFailures == {"none", "open", "format"}


(***************************************************************************)
(* State.                                                                  *)
(***************************************************************************)
VARIABLES
    pc,              \* where main is: validate, table_menu, fs_menu, read_iso,
                     \* confirm, table, format, copy, exited
    exit_code,       \* the process's exit status, -1 while it runs
    table, fs,       \* the menu choices ("" until chosen)
    iso_size,        \* the image's byte length (u64)
    name, label,     \* iso[2].name and the normalised label
    confirmation,    \* the answer to the confirmation prompt, as typed
    stages,          \* the pipeline stages started so far, in order
    table_result, table_cause, format_result,
    success_printed, \* "Successfully written an image to disk!" was printed
    device_sectors,  \* the destination's size in 512-byte sectors (u64)
    disk0,           \* sector 0 as it was when the program started
    sector0, gpt, volume, part_data,   \* the destination device
    fmt_dev_size,    \* dev_size handed to the exFAT formatter
    devlog,          \* the writes to the device, in order
    cpc,             \* where write_image is: idle, loop, done, failed
    src_len,         \* the source file's true length
    file_size, file_pos, bytes_written,
    progress,        \* the progress lines emitted, in order
    short_reads      \* reads that returned less than was asked for

mainVars == <<pc, exit_code, table, fs, iso_size, name, label, confirmation,
              stages, table_result, table_cause, format_result, success_printed>>
devVars  == <<device_sectors, disk0, sector0, gpt, volume, fmt_dev_size, devlog>>
copyVars == <<cpc, src_len, file_size, file_pos, bytes_written, progress,
              short_reads, part_data>>
vars     == <<mainVars, devVars, copyVars>>

(***************************************************************************)
(* Inputs.                                                                 *)
(***************************************************************************)
UsedEntry(k) ==
    [boot |-> 0, sys |-> 12, starting_lba |-> U64(64 * k), sectors |-> U64(64)]

\* sector 0 of the destination before the run: blank, one entry, four entries
InitialSector0 ==
    { [sig |-> <<0, 0, 0, 0>>,
       parts |-> <<EmptyEntry, EmptyEntry, EmptyEntry, EmptyEntry>>],
      [sig |-> <<18, 52, 86, 120>>,
       parts |-> <<UsedEntry(1), EmptyEntry, EmptyEntry, EmptyEntry>>],
      [sig |-> <<18, 52, 86, 120>>,
       parts |-> <<UsedEntry(1), UsedEntry(2), UsedEntry(3), UsedEntry(4)>>] }

\* destination sizes: 2 MiB and 4 MiB
DeviceSectors == {U64(4096), U64(8192)}

\* image sizes: 1000, 1 MiB - 512 and 1 MiB + 65535 bytes, 2^41 - 512 and
\* 2^41 + 1024 bytes
PayloadSizes ==
    {U64(1000), U64(1048064), U64(1114111),
     SubU64(<<0, 0, 512, 0>>, U64(512)), AddU64(<<0, 0, 512, 0>>, U64(1024))}

TableInputs ==
    { <<"1", "\n">>, <<"D", "O", "S", "\n">>, <<"m", "b", "r">>,
      <<" ", "2", "\n">>, <<"G", "p", "t", "\n">>,
      <<"3", "\n">>, <<"C", "a", "n", "c", "e", "l", "\n">>,
      <<"4", "\n">>, <<"d", "o", "s", "x", "\n">>, <<>> }

FsInputs ==
    { <<"1", "\n">>, <<"F", "A", "T", "3", "2", "\n">>,
      <<"2", "\n">>, <<"f", "a", "t", "1", "6">>,
      <<" ", "3", "\n">>, <<"e", "x", "F", "A", "T", "\n">>,
      <<"4", "\n">>, <<"c", "a", "n", "c", "e", "l", "\n">>,
      <<"5", "\n">>, <<"n", "t", "f", "s", "\n">>, <<>> }

ConfirmInputs ==
    { <<"y", "\n">>, <<"Y", "\n">>, <<" ", "y", " ", "\n">>,
      <<"n", "\n">>, <<"\n">>, <<"y", "e", "s", "\n">>, <<"y", " ", "y">>, <<>> }

\* root-directory names read in the runs of main
MainNames ==
    { <<>>,
      <<"M", "y", " ", "O", "S", " ", "-", " ", "2", "0", "2", "4">>,
      <<"T", "E", "S", "T", "-", "I", "S", "O">>,
      <<"A", "B", "C", "D", "E", "F", "G", "H", "I", "J", "K", ".", "L">>,
      <<"U+00E9", "U+00E9", "U+00E9", "U+00E9", "U+00E9", "U+00E9">> }

(***************************************************************************)
(* main.                                                                   *)
(***************************************************************************)
CopyIdle ==
    /\ cpc = "idle" /\ src_len = 0 /\ file_size = 0 /\ file_pos = 0
    /\ bytes_written = 0 /\ progress = <<>> /\ short_reads = 0
    /\ part_data = <<>>

MainStart ==
    /\ exit_code = -1 /\ table = "" /\ fs = ""
    /\ iso_size = Zero64 /\ name = <<>> /\ label = <<>> /\ confirmation = <<>>
    /\ stages = <<>> /\ table_result = "none" /\ table_cause = ""
    /\ format_result = "none" /\ success_printed = FALSE

DeviceStart ==
    /\ device_sectors \in DeviceSectors
    /\ disk0 \in InitialSector0
    /\ sector0 = disk0
    /\ gpt = NoGpt /\ volume = NoVolume /\ fmt_dev_size = Zero64
    /\ devlog = <<>>

Init == pc = "validate" /\ MainStart /\ DeviceStart /\ CopyIdle

\* std::process::exit(code), a return from main, or a panic
Exit(code) == pc' = "exited" /\ exit_code' = code

Goto(next) == pc' = next /\ exit_code' = exit_code

\* lines 126-162: the checks of the two paths, each ending in exit(1);
\* check_permissions opens the destination for writing and writes nothing
Validate ==
    /\ pc = "validate"
    /\ \E file_exists, dest_exists, is_iso, is_block, file_perm, dest_perm \in BOOLEAN :
          IF file_exists /\ dest_exists /\ is_iso /\ is_block /\ file_perm /\ dest_perm
          THEN Goto("table_menu")
          ELSE Exit(1)
    /\ UNCHANGED <<table, fs, iso_size, name, label, confirmation, stages,
                   table_result, table_cause, format_result, success_printed>>
    /\ UNCHANGED <<devVars, copyVars>>

\* lines 166-192: one round of the partition-table menu
ChooseTable ==
    /\ pc = "table_menu"
    /\ \E raw \in TableInputs :
          LET input == ToLowercase(Trim(raw))
          IN  IF input \in {<<"1">>, <<"d", "o", "s">>, <<"m", "b", "r">>}
              THEN table' = "dos" /\ Goto("fs_menu")
              ELSE IF input \in {<<"2">>, <<"g", "p", "t">>}
              THEN table' = "gpt" /\ Goto("fs_menu")
              ELSE IF input \in {<<"3">>, <<"c", "a", "n", "c", "e", "l">>}
              THEN table' = table /\ Exit(0)
              ELSE table' = table /\ Goto("table_menu")
    /\ UNCHANGED <<fs, iso_size, name, label, confirmation, stages,
                   table_result, table_cause, format_result, success_printed>>
    /\ UNCHANGED <<devVars, copyVars>>

\* lines 196-227: one round of the filesystem menu
ChooseFs ==
    /\ pc = "fs_menu"
    /\ \E raw \in FsInputs :
          LET input == ToLowercase(Trim(raw))
          IN  IF input \in {<<"1">>, <<"f", "a", "t", "3", "2">>}
              THEN fs' = "fat32" /\ Goto("read_iso")
              ELSE IF input \in {<<"2">>, <<"f", "a", "t", "1", "6">>}
              THEN fs' = "fat16" /\ Goto("read_iso")
              ELSE IF input \in {<<"3">>, <<"e", "x", "f", "a", "t">>}
              THEN fs' = "exfat" /\ Goto("read_iso")
              ELSE IF input \in {<<"4">>, <<"c", "a", "n", "c", "e", "l">>}
              THEN fs' = fs /\ Exit(0)
              ELSE fs' = fs /\ Goto("fs_menu")
    /\ UNCHANGED <<table, iso_size, name, label, confirmation, stages,
                   table_result, table_cause, format_result, success_printed>>
    /\ UNCHANGED <<devVars, copyVars>>

\* lines 229-242: the image's size and the label from iso[2].name
ReadIso(names) ==
    /\ pc = "read_iso"
    /\ \/ \* metadata()? or File::open()? fails: main returns Err
          /\ Exit(1)
          /\ UNCHANGED <<iso_size, name, label>>
       \/ \* iso[2] on a root directory of fewer than three entries panics
          /\ Exit(PanicStatus)
          /\ \E p \in PayloadSizes : iso_size' = p
          /\ UNCHANGED <<name, label>>
       \/ \E p \in PayloadSizes, n \in names :
             /\ iso_size' = p
             /\ name' = n
             /\ label' = NormalizeLabel(n)
             /\ Goto("confirm")
    /\ UNCHANGED <<table, fs, confirmation, stages,
                   table_result, table_cause, format_result, success_printed>>
    /\ UNCHANGED <<devVars, copyVars>>

\* a confirmation that only looks at the answer's first letter
ConfirmedByPrefix(answer) ==
    LET a == ToLowercase(Trim(answer)) IN a # <<>> /\ a[1] = "y"

\* confirmation.trim().to_lowercase() == "y"
Confirmed(answer) == ToLowercase(Trim(answer)) = <<"y">>

\* lines 251-258: the confirmation prompt
Confirm ==
    /\ pc = "confirm"
    /\ \E raw \in ConfirmInputs :
          /\ confirmation' = raw
          /\ IF Confirmed(raw) THEN Goto("table") ELSE Exit(0)
    /\ UNCHANGED <<table, fs, iso_size, name, label, stages,
                   table_result, table_cause, format_result, success_printed>>
    /\ UNCHANGED <<devVars, copyVars>>


\* `stdout().flush()?` of lines 260, 285 and 312 fails: main returns the Err
StdoutError ==
    /\ pc \in {"table", "format", "copy"}
    /\ Exit(1)
    /\ UNCHANGED <<table, fs, iso_size, name, label, confirmation, stages,
                   table_result, table_cause, format_result, success_printed>>
    /\ UNCHANGED <<devVars, copyVars>>

\* a main that does not look at the table writer's result
TableFailedIgnored(result) == FALSE

\* line 277: result.is_err()
TableFailed(result) == result = "err"

\* line 301: result.is_err()
FormatFailed(result) == result = "err"

\* lines 262-276: the table writer chosen by `table`
TableOutcomes ==
    IF table = "dos"
    THEN {new_dos_mbr(sector0, gpt, device_sectors, iso_size, f) : f \in DosFailures}
    ELSE {new_gpt(sector0, gpt, iso_size, f) : f \in GptFailures}

\* lines 259-286: the partition-table stage
CreateTable ==
    /\ pc = "table"
    /\ IF table \notin {"dos", "gpt"}
       THEN /\ Exit(1)
            /\ UNCHANGED <<stages, table_result, table_cause, sector0, gpt, devlog>>
       ELSE \E out \in TableOutcomes :
               /\ stages' = Append(stages, "table")
               /\ table_result' = out.result
               /\ table_cause' = out.cause
               /\ sector0' = out.sector0
               /\ gpt' = out.gpt
               /\ devlog' = devlog \o out.log
               /\ IF out.result = "panic" THEN Exit(PanicStatus)
                  ELSE IF TableFailed(out.result) THEN Exit(1)
                  ELSE Goto("format")
    /\ UNCHANGED <<table, fs, iso_size, name, label, confirmation,
                   format_result, success_printed>>
    /\ UNCHANGED <<device_sectors, disk0, volume, fmt_dev_size, copyVars>>

\* lines 289-300: the formatter chosen by `fs`
FormatOutcomes ==
    IF fs = "fat32" THEN {make_fat(volume, label, 32, f) : f \in FormatFailures}
    ELSE IF fs = "fat16" THEN {make_fat(volume, label, 16, f) : f \in FormatFailures}
    ELSE {make_exfat(volume, label, iso_size, f) : f \in FormatFailures}

\* lines 287-310: the format stage
Format ==
    /\ pc = "format"
    /\ IF fs \notin {"fat32", "fat16", "exfat"}
       THEN /\ Exit(1)
            /\ UNCHANGED <<stages, format_result, volume, fmt_dev_size, devlog>>
       ELSE \E out \in FormatOutcomes :
               /\ stages' = Append(stages, "format")
               /\ format_result' = out.result
               /\ volume' = out.volume
               /\ fmt_dev_size' = out.dev_size
               /\ devlog' = IF out.volume # volume
                            THEN Append(devlog, "format") ELSE devlog
               /\ IF out.result = "panic" THEN Exit(PanicStatus)
                  ELSE IF FormatFailed(out.result) THEN Exit(1)
                  ELSE Goto("copy")
    /\ UNCHANGED <<table, fs, iso_size, name, label, confirmation,
                   table_result, table_cause, success_printed>>
    /\ UNCHANGED <<device_sectors, disk0, sector0, gpt, copyVars>>

\* lines 311-323: the call of write_image is commented out; "DONE" and the
\* success message are printed and main returns Ok(())
Finish ==
    /\ pc = "copy"
    /\ success_printed' = TRUE
    /\ Exit(0)
    /\ UNCHANGED <<table, fs, iso_size, name, label, confirmation, stages,
                   table_result, table_cause, format_result>>
    /\ UNCHANGED <<devVars, copyVars>>

Next ==
    \/ Validate
    \/ ChooseTable
    \/ ChooseFs
    \/ ReadIso(MainNames)
    \/ Confirm
    \/ StdoutError
    \/ CreateTable
    \/ Format
    \/ Finish

Spec == Init /\ [][Next]_vars


(***************************************************************************)
(* Label normalisation over many names: main from the reading of the image *)
(* on, with the root-directory name drawn from AllNames.                   *)
(***************************************************************************)
MaxNameLen == 13

Specials == {" ", ".", "-", "U+00E9"}

Letters(n) == [i \in 1..n |-> Upper[i]]

Insert(s, i, c) == SubSeq(s, 1, i) \o <<c>> \o SubSeq(s, i + 1, Len(s))

PlainNames == {Letters(n) : n \in 0..MaxNameLen}

OneSpecial(names) ==
    UNION {{Insert(s, i, c) : i \in 0..Len(s), c \in Specials} : s \in names}

\* up to MaxNameLen letters with up to two spaces, dots, hyphens or
\* two-byte characters among them
AllNames == PlainNames \cup OneSpecial(PlainNames) \cup OneSpecial(OneSpecial(PlainNames))

InitLabel == pc = "read_iso" /\ MainStart /\ DeviceStart /\ CopyIdle

NextLabel == ReadIso(AllNames)

SpecLabel == InitLabel /\ [][NextLabel]_vars

(***************************************************************************)
(* write_image (lines 328-358), called on its own.                         *)
(***************************************************************************)
MaxChunks == 3
MaxShortReads == 2

\* source lengths: whole chunks, one byte more, one byte less
FileSizes ==
    {k * ChunkSize + r : k \in 0..MaxChunks, r \in {0, 1, ChunkSize - 1}}

Min(a, b) == IF a < b THEN a ELSE b

\* what file.read(&mut buffer) may return with `remaining` bytes left: the
\* whole buffer (or all that is left), or less (a short read)
ReadSizes(remaining) ==
    {Min(ChunkSize, remaining)}
    \cup (IF short_reads < MaxShortReads
          THEN {n \in {1, ChunkSize \div 2} : n < Min(ChunkSize, remaining)}
          ELSE {})

\* a write of the whole buffer, dest.write_all(&buffer)
WriteLenWholeBuffer(bytes_read) == ChunkSize

\* dest.write_all(&buffer[..bytes_read]): the number of buffer bytes written
WriteLen(bytes_read) == bytes_read

\* lines 345-349: progress = bytes_written / file_size * 100 (kept as the
\* fraction percent[1] / percent[2]; the f64 quotient of two equal numbers is
\* exactly 1), fill = round(round(progress) * 14 / 100), empty = 15 - fill
ProgressLine(written, total) ==
    LET rounded == (200 * written + total) \div (2 * total)
        fill    == (28 * rounded + 100) \div 200
    IN  [written |-> written, total |-> total,
         percent |-> <<100 * written, total>>,
         fill |-> fill, empty |-> 15 - fill]

InitCopy ==
    /\ pc = "write_image" /\ MainStart /\ DeviceStart
    /\ cpc = "start"
    /\ src_len \in FileSizes
    /\ file_size = 0 /\ file_pos = 0 /\ bytes_written = 0
    /\ progress = <<>> /\ short_reads = 0 /\ part_data = <<>>

\* lines 329-335: both files opened, file_size = file.metadata()?.len()
CopyOpen ==
    /\ cpc = "start"
    /\ \/ /\ cpc' = "loop"
          /\ file_size' = src_len
          /\ bytes_written' = 0
       \/ /\ cpc' = "failed"
          /\ UNCHANGED <<file_size, bytes_written>>
    /\ UNCHANGED <<src_len, file_pos, progress, short_reads, part_data>>
    /\ UNCHANGED <<mainVars, devVars>>

\* lines 338-350: one round of the loop that reads a chunk; a chunk of
\* part_data is <<offset in the source, bytes written to the partition>>
CopyChunk ==
    /\ cpc = "loop"
    /\ file_pos < src_len
    /\ \E n \in ReadSizes(src_len - file_pos) :
          /\ part_data' = Append(part_data, <<file_pos, WriteLen(n)>>)
          /\ file_pos' = file_pos + n
          /\ bytes_written' = bytes_written + n
          /\ progress' = Append(progress, ProgressLine(bytes_written + n, file_size))
          /\ short_reads' = IF n < Min(ChunkSize, src_len - file_pos)
                            THEN short_reads + 1 ELSE short_reads
    /\ UNCHANGED <<cpc, src_len, file_size>>
    /\ UNCHANGED <<mainVars, devVars>>

\* lines 339 and 352: Ok(0) ends the loop, dest.flush()?, Ok(())
CopyEof ==
    /\ cpc = "loop"
    /\ file_pos = src_len
    /\ \/ cpc' = "done"
       \/ cpc' = "failed"
    /\ UNCHANGED <<src_len, file_size, file_pos, bytes_written, progress,
                   short_reads, part_data>>
    /\ UNCHANGED <<mainVars, devVars>>

\* lines 341 and 343: a read error, or a write error after part of the chunk
CopyError ==
    /\ cpc = "loop"
    /\ file_pos < src_len
    /\ cpc' = "failed"
    /\ \/ UNCHANGED part_data
       \/ part_data' = Append(part_data, <<file_pos, 1>>)
    /\ UNCHANGED <<src_len, file_size, file_pos, bytes_written, progress, short_reads>>
    /\ UNCHANGED <<mainVars, devVars>>

NextCopy == CopyOpen \/ CopyChunk \/ CopyEof \/ CopyError

SpecCopy == InitCopy /\ [][NextCopy]_vars


(***************************************************************************)
(* Properties.                                                             *)
(***************************************************************************)
Failed(result) == result \in {"err", "panic"}

\* the device is as it was when the program started
DeviceUntouched ==
    /\ sector0 = disk0 /\ gpt = NoGpt /\ volume = NoVolume
    /\ part_data = <<>> /\ devlog = <<>>

\* the bytes of the image on the partition
RECURSIVE SumLen(_)
SumLen(chunks) == IF chunks = <<>> THEN 0 ELSE Head(chunks)[2] + SumLen(Tail(chunks))

\* the entry new_dos_mbr created
DosEntry == sector0.parts[CHOOSE i \in 1..4 : sector0.parts[i].sys = SysLinux]

\* C1: the stages start in the order table, format, copy, each only after the
\* one before returned success; after a failed table writer no formatter and
\* no copy starts, after a failed formatter no copy starts and no success
\* message is printed.
C1_StagesInOrder ==
    /\ stages \in {<<>>, <<"table">>, <<"table", "format">>,
                   <<"table", "format", "copy">>}
    /\ Len(stages) >= 2 => table_result = "ok"
    /\ Len(stages) >= 3 => format_result = "ok"
    /\ Failed(table_result) =>
          /\ stages = <<"table">>
          /\ format_result = "none" /\ volume = NoVolume /\ part_data = <<>>
          /\ ~success_printed
    /\ Failed(format_result) =>
          /\ stages = <<"table", "format">>
          /\ part_data = <<>>
          /\ ~success_printed
    /\ success_printed => table_result = "ok" /\ format_result = "ok"

\* a run whose table writer returned an error after its first write
C1_Witness ==
    /\ pc = "exited" /\ exit_code = 1
    /\ table_result = "err" /\ devlog # <<>>
    /\ stages = <<"table">>

\* C2: when main reports success (the success message, exit status 0) the copy
\* stage has run after the format stage and the partition holds exactly
\* source-size bytes of the image.
C2_SuccessMeansCopied ==
    (pc = "exited" /\ success_printed /\ exit_code = 0) =>
        /\ stages = <<"table", "format", "copy">>
        /\ U64(SumLen(part_data)) = iso_size

\* C3: new_dos_mbr on a device whose four primary entries are all occupied
\* returns a NoFreeSlot error (no I/O error occurring) and leaves sector 0 as
\* it was.
C3_FullTableRejected ==
    (/\ table = "dos" /\ table_result # "none" /\ table_cause # "io"
     /\ \A i \in 1..4 : ~is_unused(disk0.parts[i])) =>
        /\ table_result = "err"
        /\ table_cause = "NoFreeSlot"
        /\ sector0 = disk0

\* C4: the sector count new_dos_mbr stores in the partition entry, times 512,
\* is at least the payload size, for every payload size.
C4_PartitionHoldsPayload ==
    (table = "dos" /\ table_result = "ok") =>
        LeqU64(iso_size, MulU64(DosEntry.sectors, ss))

\* C5: when new_gpt returns success, sector 0 holds a protective MBR written
\* after the GPT, whose single entry has as many sectors as the device has,
\* less one.
C5_ProtectiveMbrSpansDevice ==
    (table = "gpt" /\ table_result = "ok") =>
        /\ devlog = <<"gpt", "pmbr">>
        /\ sector0.parts[1].sys = SysProtective
        /\ \A i \in 2..4 : is_unused(sector0.parts[i])
        /\ sector0.parts[1].sectors = SubU64(TryU32OrMax(device_sectors), U64(1))

\* C6: the normalised label holds no space, dot or hyphen; a stripped label of
\* more than 11 characters is cut to its first 10, a shorter one is kept; the
\* label handed to the formatter is at most 11 bytes long.
C6_LabelNormalized ==
    pc = "confirm" =>
        LET stripped == StripLabel(DefaultLabel(name))
        IN  /\ \A i \in 1..Len(label) : label[i] \notin {" ", ".", "-"}
            /\ Len(stripped) > 11 => label = SubSeq(stripped, 1, 10)
            /\ Len(stripped) <= 11 => label = stripped
            /\ ByteLen(label) <= 11

\* C7: a run ends with exit status 0 or 1: 0 exactly after full success or a
\* cancellation, 1 after a failed check or a failed stage; never a panic.
C7_ExitCodes ==
    pc = "exited" =>
        /\ exit_code \in {0, 1}
        /\ (Failed(table_result) \/ Failed(format_result)) => exit_code = 1
        /\ exit_code = 0 => (success_printed \/ stages = <<>>)

\* the chunks written are the source's bytes in order, without gap or overlap
Contiguous(chunks) ==
    \A i \in 1..Len(chunks) : chunks[i][1] = SumLen(SubSeq(chunks, 1, i - 1))

\* the last progress line shows exactly 100%
LastIsHundred ==
    /\ progress # <<>>
    /\ progress[Len(progress)].percent[1] = 100 * progress[Len(progress)].percent[2]

CopyInvariant ==
    /\ \A i \in 1..Len(part_data) : part_data[i][2] \in 1..ChunkSize
    /\ \A i \in 1..Len(progress) :
          /\ progress[i].written <= src_len
          /\ \A j \in 1..i : progress[j].written <= progress[i].written
    /\ bytes_written <= src_len
    /\ cpc \in {"loop", "done"} =>
          /\ file_pos = bytes_written
          /\ SumLen(part_data) = bytes_written
    /\ cpc = "done" =>
          /\ bytes_written = src_len
          /\ SumLen(part_data) = src_len
          /\ Contiguous(part_data)

\* C8 as stated: write_image without error ends having written the bytes read,
\* in chunks of at most 65536, bytes_written never decreasing nor exceeding N
\* and N at the end, the last progress line at exactly 100%, for every N, 0
\* included.
C8_AlwaysReachesHundred ==
    /\ CopyInvariant
    /\ cpc = "done" => LastIsHundred

\* C8, amended: as stated for every N > 0; for N = 0 the loop ends on its
\* first read, bytes_written stays 0 and no progress line is emitted.
C8_CopyCompletes ==
    /\ CopyInvariant
    /\ (cpc = "done" /\ src_len > 0) => LastIsHundred
    /\ (cpc = "done" /\ src_len = 0) => progress = <<>> /\ part_data = <<>>

\* a copy of one chunk and one byte, with a short read, that ended
C8_Witness ==
    /\ cpc = "done" /\ src_len = ChunkSize + 1 /\ short_reads > 0
    /\ Len(part_data) = 3

\* the answers that are a 'y', in either case, with whitespace around it
YesAnswers == {<<"y", "\n">>, <<"Y", "\n">>, <<" ", "y", " ", "\n">>}

\* C9: nothing is written to the device, and no stage is started, before the
\* confirmation prompt was answered with 'y' (in either case); a run that ends
\* earlier or on another answer leaves the device as it was.
C9_NoWriteBeforeConfirmation ==
    /\ (~DeviceUntouched \/ stages # <<>>) => confirmation \in YesAnswers
    /\ pc \in {"validate", "table_menu", "fs_menu", "read_iso", "confirm"} =>
          DeviceUntouched /\ confirmation = <<>>
    /\ (pc = "exited" /\ confirmation \notin YesAnswers) => DeviceUntouched

\* a run that ended on the answer "yes" with the device as it was
C9_Witness ==
    /\ pc = "exited" /\ exit_code = 0
    /\ confirmation = <<"y", "e", "s", "\n">>
    /\ table # "" /\ fs # ""
    /\ DeviceUntouched

\* C10: with table 'dos' and filesystem 'exfat', the dev_size handed to the
\* exFAT formatter is at most the byte length of the partition new_dos_mbr
\* created.
C10_ExfatFitsPartition ==
    (table = "dos" /\ fs = "exfat" /\ table_result = "ok"
     /\ fmt_dev_size # Zero64) =>
        LeqU64(fmt_dev_size, MulU64(DosEntry.sectors, ss))

====
